---- MODULE Spec2Model ----
(***************************************************************************)
(* Model of demo/app.py: a Flask service with two read-only routes and a  *)
(* pool of daemon threads that poll configured targets forever.           *)
(*                                                                         *)
(* Strings that the program parses are sequences of one-character         *)
(* strings, so that str.split(',') and int() are computed, not assumed.   *)
(* Positions are 0-based as in the source; Seq[i + 1] is Python's seq[i]. *)
(***************************************************************************)
EXTENDS Integers, Sequences, FiniteSets, TLC

\* ------------------------------------------------------------------ bounds
\* Largest number of comma-separated entries of the TARGETS variable.
MaxTargets == 3
\* Largest number of comma-separated entries of the INTERVALS variable.
MaxIntervals == 2

\* ------------------------------------------------- the process environment
SvcA == <<"s", "v", "c", "A">>

\* "host<k>:9000", the name of the k-th target host (k a single digit).
HostName(k) ==
    <<"h", "o", "s", "t", <<"1", "2", "3", "4", "5", "6", "7", "8", "9">>[k],
      ":", "9", "0", "0", "0">>

\* The values of TARGETS with n comma-separated entries: the entry at
\* position k is either empty or names the k-th host.
TargetLists(n) == {p \in [1..n -> {HostName(k) : k \in 1..n} \cup {<<>>}] :
                      \A k \in 1..n : p[k] \in {HostName(k), <<>>}}

\* Entries the INTERVALS variable is built from: well-formed integers of
\* either sign, and malformed ones (a letter, a bare sign, nothing).
IntervalTokens == {<<"2">>, <<"1", "0">>, <<"-", "1">>, <<"x">>, <<"-">>, <<>>}

Digits == {"0", "1", "2", "3", "4", "5", "6", "7", "8", "9"}

DigitVal(c) ==
    CASE c = "0" -> 0 [] c = "1" -> 1 [] c = "2" -> 2 [] c = "3" -> 3
      [] c = "4" -> 4 [] c = "5" -> 5 [] c = "6" -> 6 [] c = "7" -> 7
      [] c = "8" -> 8 [] c = "9" -> 9

RECURSIVE Join(_)
\* ",".join(parts)
Join(parts) ==
    IF Len(parts) = 0 THEN <<>>
    ELSE IF Len(parts) = 1 THEN parts[1]
    ELSE parts[1] \o <<",">> \o Join(Tail(parts))

SeqsUpTo(S, lo, hi) == UNION {[1..n -> S] : n \in lo..hi}

\* An environment variable is either unset or set to a string.
Unset == [set |-> FALSE, val |-> <<>>]
SetTo(s) == [set |-> TRUE, val |-> s]

EnvSpace ==
    [SERVICE_NAME : {Unset, SetTo(SvcA)},
     TARGETS : {Unset} \cup {SetTo(Join(p)) : p \in UNION {TargetLists(n) : n \in 1..MaxTargets}},
     INTERVALS : {Unset} \cup {SetTo(Join(p)) : p \in SeqsUpTo(IntervalTokens, 1, MaxIntervals)}]

VARIABLES
    env,            \* os.environ, read once
    pc,             \* position of the main thread
    SERVICE_NAME,   \* module globals, lines 12-14
    TARGETS,
    INTERVALS,
    i,              \* loop index of start_periodic_calls
    threads,        \* the Thread objects created so far, in creation order
    resp            \* the last response the Flask server returned

vars == <<env, pc, SERVICE_NAME, TARGETS, INTERVALS, i, threads, resp>>

\* os.getenv(name, default)
getenv(name, default) == IF env[name].set THEN env[name].val ELSE default

\* ------------------------------------------------------------ str.split(',')
RECURSIVE FirstComma(_, _)
\* The least k >= from with s[k] = ",", or 0 if there is none.
FirstComma(s, from) ==
    IF from > Len(s) THEN 0
    ELSE IF s[from] = "," THEN from
    ELSE FirstComma(s, from + 1)

RECURSIVE split(_)
\* s.split(','): always at least one element; ''.split(',') is [''].
split(s) ==
    LET k == FirstComma(s, 1) IN
    IF k = 0 THEN <<s>>
    ELSE <<SubSeq(s, 1, k - 1)>> \o split(SubSeq(s, k + 1, Len(s)))

\* ------------------------------------------------------------------- int()
RECURSIVE DigitsValue(_, _)
\* Value of a string of decimal digits, most significant first.
DigitsValue(s, acc) ==
    IF Len(s) = 0 THEN acc
    ELSE DigitsValue(Tail(s), 10 * acc + DigitVal(Head(s)))

AllDigits(s) == Len(s) > 0 /\ \A k \in 1..Len(s) : s[k] \in Digits

\* int(s) for a string without whitespace or underscores: an optional sign
\* followed by one or more digits. ok = FALSE stands for ValueError.
int(s) ==
    LET signed == Len(s) > 0 /\ s[1] \in {"+", "-"}
        body == IF signed THEN Tail(s) ELSE s
    IN  IF AllDigits(body)
        THEN [ok |-> TRUE,
              val |-> IF signed /\ s[1] = "-" THEN 0 - DigitsValue(body, 0)
                      ELSE DigitsValue(body, 0)]
        ELSE [ok |-> FALSE, val |-> 0]

\* ------------------------------------------------- module level, lines 12-14
Unknown == <<"u", "n", "k", "n", "o", "w", "n">>
Sixty == <<"6", "0">>

\* Line 13: the split is taken only when the variable is set and non-empty.
ParseTargets ==
    IF Len(getenv("TARGETS", <<>>)) > 0
    THEN split(getenv("TARGETS", <<>>))
    ELSE <<>>

\* A malformed entry is replaced by 60 instead of failing.
ParseIntervals_Lenient(raw) ==
    LET parts == split(raw)
        parsed == [k \in 1..Len(parts) |-> int(parts[k])]
    IN  [ok |-> TRUE,
         val |-> [k \in 1..Len(parts) |->
                     IF parsed[k].ok THEN parsed[k].val ELSE 60]]

\* Line 14: list(map(int, raw.split(','))); one ValueError fails the whole list.
ParseIntervals(raw) ==
    LET parts == split(raw)
        parsed == [k \in 1..Len(parts) |-> int(parts[k])]
    IN  [ok |-> \A k \in 1..Len(parts) : parsed[k].ok,
         val |-> [k \in 1..Len(parts) |-> parsed[k].val]]

\* ------------------------------------------------------------- poll threads
DefaultInterval == 60
StatusCodes == {200, 503}

CallingLine == [level |-> "INFO", msg |-> "Calling", status |-> 0]
ResponseLine(code) == [level |-> "INFO", msg |-> "Response", status |-> code]
ErrorLine == [level |-> "ERROR", msg |-> "Error", status |-> 0]
TracebackLine == [level |-> "STDERR", msg |-> "Traceback", status |-> 0]

\* The fallback is used from the position of the last given interval on.
ResolveInterval_OffByOne(pos) ==
    IF pos + 1 < Len(INTERVALS) THEN INTERVALS[pos + 1] ELSE DefaultInterval

\* The fallback is the last given interval instead of the literal 60.
ResolveInterval_LastGiven(pos) ==
    IF pos < Len(INTERVALS) THEN INTERVALS[pos + 1] ELSE INTERVALS[Len(INTERVALS)]

\* Line 45, with pos the 0-based position of the target.
ResolveInterval(pos) ==
    IF pos < Len(INTERVALS) THEN INTERVALS[pos + 1] ELSE DefaultInterval

\* What requests.get can do (line 34): return a response with some status
\* code, or raise (connection refused, DNS failure, timeout after 5 s).
Pending == [kind |-> "pending", status |-> 0]
Outcomes == {[kind |-> "response", status |-> c] : c \in StatusCodes}
            \cup {[kind |-> "exception", status |-> 0]}

\* Lines 35 and 37: what the try block logs for the outcome of requests.get.
OutcomeLine(outcome) ==
    IF outcome.kind = "response" THEN ResponseLine(outcome.status) ELSE ErrorLine

\* The wait doubles after a failed request.
SleepDuration_Backoff(t) ==
    IF threads[t].outcome.kind = "exception"
    THEN 2 * threads[t].interval
    ELSE threads[t].interval

\* Line 39: the argument of time.sleep in thread t.
SleepDuration(t) == threads[t].interval

\* Line 46: the thread starts in make_request, logs line 33 and blocks in
\* requests.get. pos is the iteration of start_periodic_calls that made it;
\* outcome is what requests.get did in the current iteration; log is the
\* last line the thread wrote; slept lists the durations of the time.sleep
\* calls that returned since the last request.
NewThread(pos) ==
    [target |-> TARGETS[pos + 1], interval |-> ResolveInterval(pos), pos |-> pos,
     pc |-> "request", outcome |-> Pending, log |-> CallingLine, slept |-> <<>>]

\* The loop stops one iteration early.
StartFinished_OffByOne == i >= Len(TARGETS) - 1

\* Line 43: the for loop of start_periodic_calls is exhausted.
StartFinished == i >= Len(TARGETS)

\* ---------------------------------------------------------------- responses
\* The health check reports a failing poll.
HealthResponse_Degraded ==
    IF \E t \in 1..Len(threads) : threads[t].log.level = "ERROR"
    THEN [route |-> "/health", code |-> 503,
          body |-> [status |-> "degraded", service |-> SERVICE_NAME]]
    ELSE [route |-> "/health", code |-> 200,
          body |-> [status |-> "healthy", service |-> SERVICE_NAME]]

\* Lines 16-18.
HealthResponse ==
    [route |-> "/health", code |-> 200,
     body |-> [status |-> "healthy", service |-> SERVICE_NAME]]

\* The response lists one interval per target, padded with the fallback.
IndexResponse_Padded ==
    [route |-> "/", code |-> 200,
     body |-> [service |-> SERVICE_NAME,
               message |-> <<"H", "e", "l", "l", "o", " ", "f", "r", "o", "m", " ">>
                           \o SERVICE_NAME \o <<"!">>,
               targets |-> TARGETS,
               intervals |-> [k \in 1..Len(TARGETS) |-> ResolveInterval(k - 1)]]]

\* Lines 20-27.
IndexResponse ==
    [route |-> "/", code |-> 200,
     body |-> [service |-> SERVICE_NAME,
               message |-> <<"H", "e", "l", "l", "o", " ", "f", "r", "o", "m", " ">>
                           \o SERVICE_NAME \o <<"!">>,
               targets |-> TARGETS,
               intervals |-> INTERVALS]]

NoResponse == [route |-> "", code |-> 0, body |-> [status |-> ""]]

\* -------------------------------------------------------------------- Init
Init ==
    /\ env \in EnvSpace
    /\ pc = "import"
    /\ SERVICE_NAME = <<>>
    /\ TARGETS = <<>>
    /\ INTERVALS = <<>>
    /\ i = 0
    /\ threads = <<>>
    /\ resp = NoResponse

\* ----------------------------------------------------------------- actions
\* Lines 12-14 succeed; the interpreter goes on to the __main__ block.
LoadConfig ==
    /\ pc = "import"
    /\ ParseIntervals(getenv("INTERVALS", Sixty)).ok
    /\ SERVICE_NAME' = getenv("SERVICE_NAME", Unknown)
    /\ TARGETS' = ParseTargets
    /\ INTERVALS' = ParseIntervals(getenv("INTERVALS", Sixty)).val
    /\ pc' = "main"
    /\ UNCHANGED <<env, i, threads, resp>>

\* Line 14 raises ValueError at import: the interpreter prints the traceback
\* and exits before the __main__ block.
LoadConfigError ==
    /\ pc = "import"
    /\ ~ParseIntervals(getenv("INTERVALS", Sixty)).ok
    /\ pc' = "crashed"
    /\ UNCHANGED <<env, SERVICE_NAME, TARGETS, INTERVALS, i, threads, resp>>

\* Lines 50-56: log the configuration and enter start_periodic_calls.
Main ==
    /\ pc = "main"
    /\ pc' = "start_periodic_calls"
    /\ i' = 0
    /\ UNCHANGED <<env, SERVICE_NAME, TARGETS, INTERVALS, threads, resp>>

\* Lines 43-48, an iteration whose target is a non-empty string.
StartThread ==
    /\ pc = "start_periodic_calls"
    /\ ~StartFinished
    /\ TARGETS[i + 1] # <<>>
    /\ threads' = Append(threads, NewThread(i))
    /\ i' = i + 1
    /\ UNCHANGED <<env, pc, SERVICE_NAME, TARGETS, INTERVALS, resp>>

\* Lines 43-44, an iteration whose target is the empty string.
SkipEmpty ==
    /\ pc = "start_periodic_calls"
    /\ ~StartFinished
    /\ TARGETS[i + 1] = <<>>
    /\ i' = i + 1
    /\ UNCHANGED <<env, pc, SERVICE_NAME, TARGETS, INTERVALS, threads, resp>>

\* Line 59: start_periodic_calls has returned; app.run begins to serve.
RunServer ==
    /\ pc = "start_periodic_calls"
    /\ StartFinished
    /\ pc' = "serving"
    /\ UNCHANGED <<env, SERVICE_NAME, TARGETS, INTERVALS, i, threads, resp>>

\* Lines 16-18: GET /health.
health ==
    /\ pc = "serving"
    /\ resp' = HealthResponse
    /\ UNCHANGED <<env, pc, SERVICE_NAME, TARGETS, INTERVALS, i, threads>>

\* Lines 20-27: GET /.
index ==
    /\ pc = "serving"
    /\ resp' = IndexResponse
    /\ UNCHANGED <<env, pc, SERVICE_NAME, TARGETS, INTERVALS, i, threads>>

\* Lines 34-37 of thread t: requests.get returns a response or raises, the
\* outcome is logged, and the thread reaches time.sleep.
Request(t, outcome) ==
    /\ threads[t].pc = "request"
    /\ threads' = [threads EXCEPT ![t].pc = "sleep",
                                  ![t].outcome = outcome,
                                  ![t].log = OutcomeLine(outcome),
                                  ![t].slept = <<>>]
    /\ UNCHANGED <<env, pc, SERVICE_NAME, TARGETS, INTERVALS, i, resp>>

\* Line 39 then 31-33 of thread t: time.sleep(interval) returns, the loop
\* goes round, logs line 33 and blocks in requests.get again.
Sleep(t) ==
    /\ threads[t].pc = "sleep"
    /\ SleepDuration(t) >= 0
    /\ threads' = [threads EXCEPT ![t].pc = "request",
                                  ![t].outcome = Pending,
                                  ![t].log = CallingLine,
                                  ![t].slept = Append(@, SleepDuration(t))]
    /\ UNCHANGED <<env, pc, SERVICE_NAME, TARGETS, INTERVALS, i, resp>>

\* Line 39 of thread t with a negative interval: time.sleep raises
\* ValueError outside the try block and the thread ends with a traceback.
SleepRaises(t) ==
    /\ threads[t].pc = "sleep"
    /\ SleepDuration(t) < 0
    /\ threads' = [threads EXCEPT ![t].pc = "dead", ![t].log = TracebackLine]
    /\ UNCHANGED <<env, pc, SERVICE_NAME, TARGETS, INTERVALS, i, resp>>

\* Lines 29-39: one step of the poll loop of some thread.
make_request ==
    \E t \in 1..Len(threads) :
        \/ \E outcome \in Outcomes : Request(t, outcome)
        \/ Sleep(t)
        \/ SleepRaises(t)

\* Lines 41-48.
start_periodic_calls == StartThread \/ SkipEmpty

Next ==
    \/ LoadConfig
    \/ LoadConfigError
    \/ Main
    \/ start_periodic_calls
    \/ RunServer
    \/ health
    \/ index
    \/ make_request

Spec == Init /\ [][Next]_vars

\* =================================================================== claims
WellFormed(raw) == \A parts \in {split(raw)} : \A k \in 1..Len(parts) : int(parts[k]).ok
Loaded == pc \in {"main", "start_periodic_calls", "serving"}
Live == {t \in 1..Len(threads) : threads[t].pc # "dead"}
ThreadsAt(pos) == {t \in 1..Len(threads) : threads[t].pos = pos}

\* C1: every thread was made for a non-empty target and carries the interval
\* at its target's position, or 60 when INTERVALS has no such position.
C1_PairingPolicy ==
    \A t \in 1..Len(threads) :
        LET pos == threads[t].pos IN
        /\ pos < Len(TARGETS)
        /\ threads[t].target = TARGETS[pos + 1]
        /\ threads[t].target # <<>>
        /\ pos < Len(INTERVALS) => threads[t].interval = INTERVALS[pos + 1]
        /\ pos >= Len(INTERVALS) => threads[t].interval = 60

\* Three targets and two intervals: a -> 2, b -> 10, c -> 60.
C1_Witness ==
    /\ Len(threads) = 3
    /\ INTERVALS = <<2, 10>>
    /\ threads[1].interval = 2
    /\ threads[2].interval = 10
    /\ threads[3].interval = 60

ScenarioEnv ==
    [SERVICE_NAME |-> SetTo(SvcA),
     TARGETS |-> SetTo(Join(<<HostName(1), HostName(2)>>)),
     INTERVALS |-> SetTo(<<"2">>)]

\* C2 as stated: in the scenario svcA / host1:9000,host2:9000 / 2 there are
\* two poll tasks after startup and both run with interval 2.
C2_BothIntervalTwo ==
    (env = ScenarioEnv /\ pc = "serving") =>
        /\ Len(threads) = 2
        /\ \A t \in 1..Len(threads) : threads[t].interval = 2

\* C2 amended: in that scenario there are two poll tasks after startup;
\* host1:9000 runs with interval 2 and host2:9000 with the fallback 60.
C2_ScenarioIntervals ==
    (env = ScenarioEnv /\ pc = "serving") =>
        /\ Len(threads) = 2
        /\ threads[1].target = HostName(1) /\ threads[1].interval = 2
        /\ threads[2].target = HostName(2) /\ threads[2].interval = 60

C2_Witness ==
    /\ env = ScenarioEnv
    /\ pc = "serving"
    /\ Len(threads) = 2
    /\ \A t \in 1..Len(threads) : threads[t].slept # <<>>

\* C3: once start_periodic_calls has finished there is exactly one poll task
\* for each non-empty position of targets and none for an empty one, each
\* paired by its original position, and the set of tasks stays that way.
C3_EmptyTargetSkipping ==
    pc = "serving" =>
        /\ \A pos \in 0..(Len(TARGETS) - 1) :
               /\ Cardinality(ThreadsAt(pos) \cap Live)
                      = IF TARGETS[pos + 1] # <<>> THEN 1 ELSE 0
               /\ \A t \in ThreadsAt(pos) : threads[t].interval = ResolveInterval(pos)
        /\ Cardinality(Live) <= Len(TARGETS)

\* C4: a poll task that has just logged a transport failure is not ended by
\* its next step, and a failure in one task leaves every other task as it was.
C4_FailuresNeverStopPolling ==
    [][\A t \in 1..Len(threads) :
          /\ (threads[t].pc = "sleep" /\ threads[t].outcome.kind = "exception")
                 => threads'[t].pc \in {"sleep", "request"}
          /\ (threads[t].pc = "request" /\ threads'[t].outcome.kind = "exception")
                 => \A u \in 1..Len(threads) : u # t => threads'[u] = threads[u]
      ]_vars

C6_IntervalsPositive ==
    Loaded =>
        /\ \A k \in 1..Len(INTERVALS) : INTERVALS[k] > 0
        /\ \A t \in 1..Len(threads) : threads[t].interval > 0

\* C7: GET /health answers 200, "healthy" and the configured service name,
\* and answering it changes neither the poll tasks nor the configuration.
C7_HealthIsConstant ==
    [][(resp'.route = "/health" /\ resp' # resp) =>
          /\ resp'.code = 200
          /\ resp'.body.status = "healthy"
          /\ resp'.body.service = getenv("SERVICE_NAME", Unknown)
          /\ UNCHANGED <<env, SERVICE_NAME, TARGETS, INTERVALS, threads>>
      ]_vars

\* /health was answered while one task had just failed, one was sleeping
\* after a response and one was in a request.
C7_Witness ==
    /\ resp.route = "/health"
    /\ resp.body.service = SvcA
    /\ \E t \in 1..Len(threads) : threads[t].log.level = "ERROR"
    /\ \E t \in 1..Len(threads) : threads[t].pc = "request"
    /\ \E t \in 1..Len(threads) : threads[t].outcome.kind = "response"

\* C8: at any time after startup GET / returns the targets and intervals as
\* the loader parsed them from the environment, empty entries included and
\* nothing added.
C8_IndexEchoesConfiguration ==
    Loaded =>
        \A r \in {IndexResponse}, parts \in {split(getenv("INTERVALS", Sixty))} :
            /\ r.code = 200
            /\ r.body.targets = ParseTargets
            /\ Len(r.body.intervals) = Len(parts)
            /\ \A k \in 1..Len(parts) : r.body.intervals[k] = int(parts[k]).val
            /\ resp.route = "/" => resp = r

\* GET / was answered after a tick; one target is empty and has no task,
\* and there are fewer intervals than targets.
C8_Witness ==
    /\ resp.route = "/"
    /\ \E k \in 1..Len(resp.body.targets) : resp.body.targets[k] = <<>>
    /\ Len(resp.body.intervals) < Len(resp.body.targets)
    /\ Len(threads) < Len(resp.body.targets)
    /\ \E t \in 1..Len(threads) : threads[t].pc = "sleep"

\* C9: when some comma-separated entry of INTERVALS is not an integer, the
\* process never gets past the import: no thread is started, no response is
\* served, and INTERVALS is never given a value.
C9_MalformedIntervalsAreFatal ==
    ~WellFormed(getenv("INTERVALS", Sixty)) =>
        /\ pc \in {"import", "crashed"}
        /\ threads = <<>>
        /\ resp = NoResponse
        /\ INTERVALS = <<>>

\* INTERVALS="2," has an empty entry; the process has crashed.
C9_Witness ==
    /\ env.INTERVALS = SetTo(<<"2", ",">>)
    /\ env.TARGETS.val # <<>>
    /\ pc = "crashed"

\* C10: threads exist only once the configuration is loaded, and the server
\* serves only when every non-empty target has its thread.
C10_StartupOrdering ==
    /\ threads # <<>> => pc \in {"start_periodic_calls", "serving"}
    /\ resp # NoResponse => pc = "serving"
    /\ pc = "serving" =>
           \A pos \in 0..(Len(TARGETS) - 1) :
               TARGETS[pos + 1] # <<>> => ThreadsAt(pos) # {}

\* The server has answered and the task of the last target has not yet
\* completed its first request.
C10_Witness ==
    /\ pc = "serving"
    /\ resp # NoResponse
    /\ Len(threads) >= 2
    /\ threads[Len(threads)].pos = Len(TARGETS) - 1
    /\ threads[Len(threads)].outcome = Pending
    /\ threads[Len(threads)].slept = <<>>

====
